---- MODULE Spec2Model ----
(***************************************************************************)
(* A model of ip-dns-check.py: a sequential command-line tool that reads   *)
(* hostnames, resolves each one, writes a report and sets the exit code.   *)
(*                                                                         *)
(* Text is modelled as follows.  A hostname, an input line and the -i      *)
(* argument are sequences of one-character strings, so that str.strip()    *)
(* is computed character by character.  A -d argument is the sequence of   *)
(* its dot-separated decimal numbers (the empty sequence is the empty      *)
(* string), which is what socket.inet_aton() looks at.  A formatted line   *)
(* (an f-string) is the tuple of its fields.                               *)
(***************************************************************************)
EXTENDS Integers, Sequences, FiniteSets, TLC

VARIABLES
    DNS_AVAILABLE,  \* module global set by the guarded import (lines 12-16)
    args,           \* argparse namespace: input, verbose, dns (line 162)
    inputFile,      \* what the file system holds under the name args.input
    hostnames,      \* main's list of hostnames (line 179)
    results,        \* main's list of result tuples (line 189)
    outFile,        \* the output file: handle state, times opened, lines written
    log,            \* everything the run did that is visible outside, in order
    pc,             \* where main is
    exitCode        \* the process exit status once pc = "exited"

vars == <<DNS_AVAILABLE, args, inputFile, hostnames, results, outFile, log, pc, exitCode>>

----------------------------------------------------------------------------
(* Bounds of the model *)

\* lines of the input file in runs of main
MaxHosts == 2
\* lines of the input file when read_hostnames is checked on its own
MaxLines == 2
\* characters of one input line, its newline not counted
MaxLineLen == 2
\* dot-separated numbers of a -d argument
MaxParts == 5

----------------------------------------------------------------------------
(* Inputs *)

SeqsUpTo(S, n) == UNION {[1..k -> S] : k \in 0..n}

Whitespace == {" ", "\n"}
Letters == {"a", "b"}

\* One line as the file iterator yields it: its text, then the newline.
LinesOf(chars, n) == {c \o <<"\n">> : c \in SeqsUpTo(chars, n)}

\* The name args.input is missing, is not readable, or is a readable file.
Missing == [kind |-> "missing", lines |-> <<>>]
Unreadable == [kind |-> "unreadable", lines |-> <<>>]
FileWith(ls) == [kind |-> "file", lines |-> ls]

FileStates(lineSet, n) == {Missing, Unreadable} \cup {FileWith(ls) : ls \in SeqsUpTo(lineSet, n)}

\* -d absent (None), or the numbers of the string given
NoDns == [given |-> FALSE, parts |-> <<>>]
PartValues == {8, 999}
DnsArgs == {NoDns} \cup {[given |-> TRUE, parts |-> p] : p \in SeqsUpTo(PartValues, MaxParts)}

\* Python truthiness of args.dns: None and "" are false
Truthy(d) == d.given /\ d.parts # <<>>

----------------------------------------------------------------------------
(* Events of the log *)

Ev(ch, what, arg) == [ch |-> ch, what |-> what, arg |-> arg]

Stdout(what, arg) == Ev("stdout", what, arg)
Stderr(what, arg) == Ev("stderr", what, arg)

----------------------------------------------------------------------------
(* socket.inet_aton, as main uses it to validate -d (line 167) *)

\* inet_aton accepts a, a.b, a.b.c and a.b.c.d: every number but the last is
\* one byte, the last one fills the bytes that are left (4, 3, 2 or 1 of
\* them).  It raises on anything else, the empty string included.
\* Pow256(n) is 256^n; the last number is compared after a division by 256,
\* which keeps 256^4 out of the arithmetic.
Pow256(n) == IF n = 0 THEN 1 ELSE IF n = 1 THEN 256 ELSE IF n = 2 THEN 65536 ELSE 16777216

inet_aton_ok(parts) ==
    /\ Len(parts) \in 1..4
    /\ \A i \in 1..(Len(parts) - 1) : parts[i] < 256
    /\ parts[Len(parts)] \div 256 < Pow256(4 - Len(parts))

----------------------------------------------------------------------------
(* perform_dns_lookup (lines 19-53) *)

NoExc == [cls |-> "", msg |-> ""]
Exc(cls, msg) == [cls |-> cls, msg |-> msg]
Return(t) == [raised |-> FALSE, value |-> t, exc |-> NoExc]
Raise(e) == [raised |-> TRUE, value |-> <<>>, exc |-> e]

\* What the underlying lookup can do: answer, or raise.
Answer(ips) == [ok |-> TRUE, answers |-> ips, exc |-> NoExc]
Fails(e) == [ok |-> FALSE, answers |-> <<>>, exc |-> e]

\* resolver.resolve(hostname, 'A') of dnspython (line 35)
CustomOutcomes ==
    { Answer(<<"2.2.2.2", "1.1.1.1">>),
      Fails(Exc("NXDOMAIN", "The DNS query name does not exist")),
      Fails(Exc("NoAnswer", "The DNS response does not contain an answer")),
      Fails(Exc("Timeout", "The DNS operation timed out")),
      Fails(Exc("NoNameservers", "All nameservers failed to answer")) }

\* socket.gethostbyname(hostname) (line 42): gaierror from the resolver,
\* UnicodeError from the idna encoding of the name
SystemOutcomes ==
    { Answer(<<"1.1.1.1">>),
      Fails(Exc("gaierror", "[Errno -2] Name or service not known")),
      Fails(Exc("UnicodeError", "encoding with 'idna' codec failed")) }

MsgNoDnspython == "Error: dnspython not installed (required for custom DNS)"

\* Mutant of Branch: without dnspython a custom server falls back to the
\* system resolver.
BranchFallback(dns_server) ==
    IF Truthy(dns_server) /\ DNS_AVAILABLE THEN "custom" ELSE "system"

\* The branch of the if / elif / else the call takes (lines 31, 38, 40)
Branch(dns_server) ==
    IF Truthy(dns_server) /\ DNS_AVAILABLE THEN "custom"
    ELSE IF Truthy(dns_server) /\ ~DNS_AVAILABLE THEN "none"
    ELSE "system"

Outcomes(branch) ==
    IF branch = "custom" THEN CustomOutcomes
    ELSE IF branch = "system" THEN SystemOutcomes
    ELSE {Answer(<<>>)}

\* The body of the try (lines 31-43)
TryBody(hostname, dns_server, outcome) ==
    IF Branch(dns_server) = "none"
    THEN Return(<<hostname, MsgNoDnspython, FALSE>>)
    ELSE IF outcome.ok
         THEN Return(<<hostname, outcome.answers[1], TRUE>>)
         ELSE Raise(outcome.exc)

\* The except clauses (lines 44-53), tried in order.  Each clause's class
\* expression is evaluated when an exception reaches it: with the import of
\* line 13 failed the name dns is unbound, and evaluating the first clause
\* raises NameError out of the function.
ExceptClauses(hostname, e) ==
    IF ~DNS_AVAILABLE THEN Raise(Exc("NameError", "name 'dns' is not defined"))
    ELSE IF e.cls = "NXDOMAIN" THEN Return(<<hostname, "Error: Domain does not exist", FALSE>>)
    ELSE IF e.cls = "NoAnswer" THEN Return(<<hostname, "Error: No A record found", FALSE>>)
    ELSE IF e.cls = "Timeout" THEN Return(<<hostname, "Error: DNS query timeout", FALSE>>)
    ELSE IF e.cls = "gaierror" THEN Return(<<hostname, "Error: " \o e.msg, FALSE>>)
    ELSE Return(<<hostname, "Unexpected error: " \o e.msg, FALSE>>)

perform_dns_lookup(hostname, dns_server, outcome) ==
    LET r == TryBody(hostname, dns_server, outcome)
    IN  IF r.raised THEN ExceptClauses(hostname, r.exc) ELSE r

----------------------------------------------------------------------------
(* read_hostnames (lines 56-79) *)

RECURSIVE LStrip(_)
LStrip(s) == IF s # <<>> /\ Head(s) \in Whitespace THEN LStrip(Tail(s)) ELSE s

RECURSIVE RStrip(_)
RStrip(s) ==
    IF s # <<>> /\ s[Len(s)] \in Whitespace THEN RStrip(SubSeq(s, 1, Len(s) - 1)) ELSE s

\* Mutant of Strip: only the leading whitespace is removed.
StripLeft(s) == LStrip(s)

\* str.strip()
Strip(s) == RStrip(LStrip(s))

\* [line.strip() for line in f if line.strip()] (line 71)
RECURSIVE StrippedNonBlank(_)
StrippedNonBlank(lines) ==
    IF lines = <<>> THEN <<>>
    ELSE IF Strip(Head(lines)) # <<>>
         THEN <<Strip(Head(lines))>> \o StrippedNonBlank(Tail(lines))
         ELSE StrippedNonBlank(Tail(lines))

\* exits: the call ends the process with sys.exit(1) (lines 75-77)
read_hostnames(file, input_source) ==
    IF file.kind = "file" THEN [exits |-> FALSE, hostnames |-> StrippedNonBlank(file.lines)]
    ELSE IF file.kind = "missing" THEN [exits |-> FALSE, hostnames |-> <<input_source>>]
    ELSE [exits |-> TRUE, hostnames |-> <<>>]

----------------------------------------------------------------------------
(* write_results (lines 82-121): the lines of the report *)

DividerWidth == 70
Divider == <<"=", DividerWidth>>
Blank == <<>>
Timestamp == "YYYY-MM-DD HH:MM:SS"

\* lines 95-100
Header(dns_server) ==
    << <<"DNS Lookup Results - ", Timestamp>>,
       IF Truthy(dns_server) THEN <<"DNS Server: ", dns_server.parts>>
                             ELSE <<"DNS Server: System Default">>,
       Divider,
       Blank >>

\* line 104
ResultLine(r) == <<r[1], " / ", r[2]>>

\* lines 103-105
Body(rs) == [i \in 1..Len(rs) |-> ResultLine(rs[i])]

\* Mutant of SuccessCount: every result is counted.
SuccessCountAll(rs) == Len(rs)

\* sum(1 for _, _, success in results if success) (line 111)
RECURSIVE SuccessCount(_)
SuccessCount(rs) ==
    IF rs = <<>> THEN 0
    ELSE (IF Head(rs)[3] THEN 1 ELSE 0) + SuccessCount(Tail(rs))

\* lines 112-115
Footer(rs) ==
    << Blank,
       Divider,
       <<"Total lookups: ", Len(rs)>>,
       <<"Successful: ", SuccessCount(rs)>>,
       <<"Failed: ", Len(rs) - SuccessCount(rs)>> >>

ReportLines(rs, dns_server) == Header(dns_server) \o Body(rs) \o Footer(rs)

\* sum(1 for _, _, success in results if not success) (line 202)
RECURSIVE FailedCount(_)
FailedCount(rs) ==
    IF rs = <<>> THEN 0
    ELSE (IF Head(rs)[3] THEN 0 ELSE 1) + FailedCount(Tail(rs))

----------------------------------------------------------------------------
(* main (lines 124-203) *)

\* sys.exit(code), and the interpreter ending on an uncaught exception, which
\* prints the traceback and exits with status 1
Exit(code) == pc' = "exited" /\ exitCode' = code

\* lines 164-175: validate -d, warn when dnspython is missing
ValidateDns ==
    /\ pc = "main"
    /\ IF Truthy(args.dns) /\ ~inet_aton_ok(args.dns.parts)
       THEN /\ log' = Append(log, Stderr("Error: Invalid DNS server IP address: ", args.dns.parts))
            /\ Exit(1)
       ELSE /\ log' = log \o (IF Truthy(args.dns) /\ ~DNS_AVAILABLE
                              THEN <<Stderr("Warning: dnspython library not installed.",
                                            "Falling back to system DNS...")>>
                              ELSE <<>>)
            /\ pc' = "read"
            /\ UNCHANGED exitCode
    /\ UNCHANGED <<DNS_AVAILABLE, args, inputFile, hostnames, results, outFile>>

\* Mutant of NoHostnames: the empty list is not detected.
NoHostnamesNever(hs) == FALSE

\* "if not hostnames" (line 181)
NoHostnames(hs) == hs = <<>>

\* lines 177-189: read the hostnames, stop when there are none
ReadInput ==
    /\ pc = "read"
    /\ LET r == read_hostnames(inputFile, args.input)
           began == <<Stdout("Reading hostnames from: ", args.input),
                      Ev("input", "open", args.input)>>
       IN  IF r.exits
           THEN /\ log' = log \o began \o <<Stderr("Error reading input: ", args.input)>>
                /\ Exit(1)
                /\ UNCHANGED hostnames
           ELSE IF NoHostnames(r.hostnames)
           THEN /\ hostnames' = r.hostnames
                /\ log' = log \o began \o <<Stderr("No hostnames found to lookup", <<>>)>>
                /\ Exit(1)
           ELSE /\ hostnames' = r.hostnames
                /\ log' = log \o began
                          \o <<Stdout("Performing DNS lookups for ", Len(r.hostnames))>>
                \* a for loop over an empty list runs no turn
                /\ pc' = IF r.hostnames = <<>> THEN "write_open" ELSE "lookup"
                /\ UNCHANGED exitCode
    /\ UNCHANGED <<DNS_AVAILABLE, args, inputFile, results, outFile>>

\* line 195: the marker of the progress line ("v" for the check mark, "x" for the cross)
Status(result) == IF result[3] THEN "v" ELSE "x"

\* lines 190-196: one turn of the loop, for the next hostname of the list
Lookup ==
    /\ pc = "lookup"
    /\ LET i == Len(results) + 1
           hostname == hostnames[i]
           b == Branch(args.dns)
       IN  \E outcome \in Outcomes(b) :
             LET r == perform_dns_lookup(hostname, args.dns, outcome)
                 called == <<Ev("lookup", "call", hostname)>>
                           \o (IF b = "none" THEN <<>>
                               ELSE <<Ev("resolver", b, <<hostname, outcome>>)>>)
             IN  IF r.raised
                 THEN /\ log' = log \o called
                                \o <<Ev("lookup", "raise", r.exc), Stderr("Traceback", r.exc)>>
                      /\ Exit(1)
                      /\ UNCHANGED results
                 ELSE /\ results' = Append(results, r.value)
                      /\ log' = log \o called
                                \o <<Ev("lookup", "return", r.value),
                                     Stdout("progress", <<Status(r.value), hostname>>)>>
                      /\ pc' = IF i = Len(hostnames) THEN "write_open" ELSE "lookup"
                      /\ UNCHANGED exitCode
    /\ UNCHANGED <<DNS_AVAILABLE, args, inputFile, hostnames, outFile>>

\* line 93: open(output_file, 'w'); a failure is caught at line 119
OpenOutput ==
    /\ pc = "write_open"
    /\ \E opened \in BOOLEAN :
         IF opened
         THEN /\ outFile' = [state |-> "open", opens |-> outFile.opens + 1, lines |-> <<>>]
              /\ log' = Append(log, Ev("output", "open", <<>>))
              /\ pc' = "write_body"
              /\ UNCHANGED exitCode
         ELSE /\ log' = Append(log, Stderr("Error writing to output file: ", <<>>))
              /\ Exit(1)
              /\ UNCHANGED outFile
    /\ UNCHANGED <<DNS_AVAILABLE, args, inputFile, hostnames, results>>

\* Mutant of AfterWith: the file is closed only at the end of the block.
AfterWithLeak(failed) == IF failed THEN "open" ELSE "closed"

\* The with statement (line 93) closes the file when its block is left,
\* by its end or by an exception.
AfterWith(failed) == "closed"

\* Mutant of ExitStatus: the failures are not counted.
ExitStatusAlwaysZero(rs) == 0

\* lines 201-203
ExitStatus(rs) == IF FailedCount(rs) = 0 THEN 0 ELSE 1

Min(a, b) == IF a < b THEN a ELSE b

\* lines 107-108: the body lines among the first k lines written, echoed
Echoes(rs, k) ==
    LET n == IF k > Len(Header(NoDns)) THEN Min(k - Len(Header(NoDns)), Len(rs)) ELSE 0
    IN  [i \in 1..n |-> Stdout("echo", ResultLine(rs[i]))]

\* lines 94-121 and 201-203: the writes reach line k and all succeed, or one
\* of them (or the close, or the print of line 117) raises and line 121 exits
WriteBody ==
    /\ pc = "write_body"
    /\ LET content == ReportLines(results, args.dns)
       IN  \E k \in 0..Len(content), failed \in BOOLEAN :
             /\ failed \/ k = Len(content)
             /\ outFile' = [outFile EXCEPT !.state = AfterWith(failed),
                                           !.lines = SubSeq(content, 1, k)]
             /\ log' = log \o (IF args.verbose THEN Echoes(results, k) ELSE <<>>)
                           \o (IF AfterWith(failed) = "closed"
                               THEN <<Ev("output", "close", <<>>)>> ELSE <<>>)
                           \o (IF failed
                               THEN <<Stderr("Error writing to output file: ", <<>>)>>
                               ELSE <<Stdout("Results written to: ", <<>>)>>)
             /\ Exit(IF failed THEN 1 ELSE ExitStatus(results))
    /\ UNCHANGED <<DNS_AVAILABLE, args, inputFile, hostnames, results>>

MainInputs == {<<"c">>}
MainLines == LinesOf(Letters \cup {" "}, 1)

Init ==
    /\ DNS_AVAILABLE \in BOOLEAN
    /\ args \in [input : MainInputs, verbose : BOOLEAN, dns : DnsArgs]
    /\ inputFile \in FileStates(MainLines, MaxHosts)
    /\ hostnames = <<>>
    /\ results = <<>>
    /\ outFile = [state |-> "closed", opens |-> 0, lines |-> <<>>]
    /\ log = <<>>
    /\ pc = "main"
    /\ exitCode = -1

Next == ValidateDns \/ ReadInput \/ Lookup \/ OpenOutput \/ WriteBody

Spec == Init /\ [][Next]_vars

----------------------------------------------------------------------------
(* read_hostnames on its own: the input source is drawn, the function applied *)

ReadInputs == {<<"c">>, <<" ", "c", "\n">>}
ReadLines == LinesOf(Letters \cup {" "}, MaxLineLen)

InitRead ==
    /\ DNS_AVAILABLE = TRUE
    /\ args \in [input : ReadInputs, verbose : {FALSE}, dns : {NoDns}]
    /\ inputFile \in FileStates(ReadLines, MaxLines)
    /\ hostnames = <<>>
    /\ results = <<>>
    /\ outFile = [state |-> "closed", opens |-> 0, lines |-> <<>>]
    /\ log = <<>>
    /\ pc = "read_call"
    /\ exitCode = -1

ReadCall ==
    /\ pc = "read_call"
    /\ LET r == read_hostnames(inputFile, args.input)
       IN  /\ hostnames' = r.hostnames
           /\ IF r.exits
              THEN /\ log' = Append(log, Stderr("Error reading input: ", args.input))
                   /\ Exit(1)
              ELSE /\ pc' = "read_return"
                   /\ UNCHANGED <<log, exitCode>>
    /\ UNCHANGED <<DNS_AVAILABLE, args, inputFile, results, outFile>>

NextRead == ReadCall

SpecRead == InitRead /\ [][NextRead]_vars

----------------------------------------------------------------------------
(* Reading the state *)

Exited == pc = "exited"

Logged(ch, what) == \E i \in DOMAIN log : log[i].ch = ch /\ log[i].what = what

\* the report was written to its end and write_results returned
WriteCompleted == Logged("stdout", "Results written to: ")

\* the open succeeded and write_results then failed
WriteFailed == outFile.opens > 0 /\ Logged("stderr", "Error writing to output file: ")

AllSucceeded == \A i \in DOMAIN results : results[i][3]

\* every hostname of the list has its result
LookupsDone == hostnames # <<>> /\ Len(results) = Len(hostnames)

\* four dot-separated decimal octets, each 0-255
StrictIPv4(parts) == Len(parts) = 4 /\ \A i \in DOMAIN parts : parts[i] \in 0..255

NonBlank(line) == \E j \in DOMAIN line : line[j] \notin Whitespace

\* t is l without its leading and trailing whitespace, l not blank
TrimOf(t, l) ==
    \E a \in DOMAIN l : \E b \in a..Len(l) :
        /\ t = SubSeq(l, a, b)
        /\ l[a] \notin Whitespace
        /\ l[b] \notin Whitespace
        /\ \A j \in DOMAIN l : (j < a \/ j > b) => l[j] \in Whitespace

----------------------------------------------------------------------------
(* C1 *)

\* C1: perform_dns_lookup never raises to its caller: every call returns a
\* (hostname, resolvedValue, success) result, and a call whose underlying
\* lookup failed returns success = false.
C1_NeverRaises ==
    \A i \in DOMAIN log :
        /\ (log[i].ch = "lookup") => (log[i].what # "raise")
        /\ (log[i].ch = "resolver") =>
              /\ i < Len(log)
              /\ log[i + 1].ch = "lookup"
              /\ log[i + 1].what = "return"
              /\ Len(log[i + 1].arg) = 3
              /\ log[i + 1].arg[1] = log[i].arg[1]
              /\ (~log[i].arg[2].ok => log[i + 1].arg[3] = FALSE)

----------------------------------------------------------------------------
(* C2 *)

\* C2 as stated: in a run whose lookups all returned, the exit code is 0 if and
\* only if every lookup result has success = true, and 1 otherwise, whatever
\* the report-writing step did.
C2_ExitCodeWhateverTheWrite ==
    (Exited /\ LookupsDone) => /\ exitCode \in {0, 1}
                               /\ (exitCode = 0 <=> AllSucceeded)

\* C2, amended: in a run that got as far as resolving hostnames the exit code
\* is 0 if and only if every hostname has a result with success = true and
\* the report was written to its end; it is 1 otherwise.
C2_ExitCode ==
    (Exited /\ hostnames # <<>>) =>
        /\ exitCode \in {0, 1}
        /\ (exitCode = 0 <=> (LookupsDone /\ AllSucceeded /\ WriteCompleted))

\* every lookup succeeded, the write failed, the exit code is 1
C2_Witness ==
    /\ Exited /\ LookupsDone /\ AllSucceeded
    /\ Len(results) >= 2
    /\ WriteFailed
    /\ exitCode = 1

----------------------------------------------------------------------------
(* C3 *)

\* C3: hostnames are resolved one at a time in input order and a failed
\* lookup does not stop the run: no lookup ends the run, result i carries
\* hostname i, at the end of the loop there are as many results as hostnames,
\* and the log holds, for hostname 1, 2, ... in turn, the call of the lookup,
\* its return, then the progress line.
LookupEvents == SelectSeq(log, LAMBDA e : e.ch = "lookup" \/ (e.ch = "stdout" /\ e.what = "progress"))

C3_InOrderAndNotStopped ==
    /\ ~Logged("lookup", "raise")
    /\ \A i \in DOMAIN results : results[i][1] = hostnames[i]
    /\ (hostnames # <<>> /\ pc \in {"write_open", "write_body", "exited"})
          => Len(results) = Len(hostnames)
    /\ Len(LookupEvents) = 3 * Len(results)
    /\ \A i \in DOMAIN results :
          /\ LookupEvents[3 * i - 2] = Ev("lookup", "call", hostnames[i])
          /\ LookupEvents[3 * i - 1] = Ev("lookup", "return", results[i])
          /\ LookupEvents[3 * i] = Stdout("progress", <<IF results[i][3] THEN "v" ELSE "x", hostnames[i]>>)

----------------------------------------------------------------------------
(* C4 *)

HeaderLines == 4

\* C4: when the write completes, the report holds the header, then exactly
\* one line "<hostname> / <resolvedValue>" per result in the order of the
\* results, then the footer, whose counts satisfy Total = len(results),
\* Successful = the number of results with success = true and
\* Successful + Failed = Total.
C4_ReportCounts ==
    WriteCompleted =>
        LET n == Len(results)
            k == Cardinality({i \in DOMAIN results : results[i][3]})
            f == Cardinality({i \in DOMAIN results : ~results[i][3]})
            L == outFile.lines
        IN  /\ Len(L) = HeaderLines + n + 5
            /\ \A i \in 1..n : L[HeaderLines + i] = <<results[i][1], " / ", results[i][2]>>
            /\ L[HeaderLines + n + 3] = <<"Total lookups: ", n>>
            /\ L[HeaderLines + n + 4] = <<"Successful: ", k>>
            /\ L[HeaderLines + n + 5] = <<"Failed: ", f>>
            /\ k + f = n

\* a completed report of two results, one succeeded and one failed
C4_Witness ==
    /\ WriteCompleted
    /\ Len(results) >= 2
    /\ \E i, j \in DOMAIN results : results[i][3] /\ ~results[j][3] /\ results[i][1] # results[j][1]

----------------------------------------------------------------------------
(* C5 *)

----------------------------------------------------------------------------
(* C6 *)

\* the value the claim gives for an outcome of the lookup
C6_Expected(branch, hostname, outcome) ==
    IF outcome.ok THEN <<hostname, outcome.answers[1], TRUE>>
    ELSE IF branch = "system" THEN <<hostname, "Error: " \o outcome.exc.msg, FALSE>>
    ELSE IF outcome.exc.cls = "NXDOMAIN" THEN <<hostname, "Error: Domain does not exist", FALSE>>
    ELSE IF outcome.exc.cls = "NoAnswer" THEN <<hostname, "Error: No A record found", FALSE>>
    ELSE IF outcome.exc.cls = "Timeout" THEN <<hostname, "Error: DNS query timeout", FALSE>>
    ELSE <<hostname, "Unexpected error: " \o outcome.exc.msg, FALSE>>

\* the outcomes the claim speaks of: everything a custom server can do, and
\* for the system resolver an address or a failure of the resolver itself
C6_Covers(branch, outcome) ==
    branch = "custom" \/ outcome.ok \/ outcome.exc.cls = "gaierror"

\* C6: every outcome of the underlying lookup is classified into its one
\* resolvedValue: with a custom server the four failure classes and the first
\* returned address, with no custom server 'Error: <system error message>'
\* for every failure of the system resolver and the resolved address.
C6_Classification ==
    \A i \in DOMAIN log :
        (log[i].ch = "resolver" /\ C6_Covers(log[i].what, log[i].arg[2])) =>
            /\ i < Len(log)
            /\ log[i + 1] = Ev("lookup", "return",
                               C6_Expected(log[i].what, log[i].arg[1], log[i].arg[2]))

----------------------------------------------------------------------------
(* C7 *)

\* C7: a -d value that is not a syntactically valid IPv4 address ends main
\* with exit code 1 and an error on standard error, before the input source
\* is read, before any lookup and without the output file being opened; and
\* a -d value reaches the resolver only if it is a valid IPv4 address.
C7_InvalidDnsIsFatal ==
    /\ (args.dns.given /\ ~StrictIPv4(args.dns.parts)) =>
          /\ ~Logged("input", "open")
          /\ ~Logged("lookup", "call")
          /\ outFile.opens = 0
          /\ Exited => /\ exitCode = 1
                       /\ Logged("stderr", "Error: Invalid DNS server IP address: ")
    /\ Logged("lookup", "call") => (args.dns.given => StrictIPv4(args.dns.parts))

----------------------------------------------------------------------------
(* C8 *)

\* read_hostnames was given a file with no non-blank line
C8_EmptyInput ==
    /\ inputFile.kind = "file"
    /\ \A i \in DOMAIN inputFile.lines : ~NonBlank(inputFile.lines[i])
    /\ Logged("input", "open")

\* C8: when the hostname list read is empty, main exits with code 1 without
\* performing a lookup and without opening the output file; and whenever a
\* lookup is performed or the output file opened, the hostname list is not
\* empty.
C8_EmptyListFailsFast ==
    /\ C8_EmptyInput =>
          /\ Exited /\ exitCode = 1
          /\ hostnames = <<>>
          /\ ~Logged("lookup", "call")
          /\ outFile.opens = 0
    /\ (Logged("lookup", "call") \/ outFile.opens > 0 \/ pc \in {"lookup", "write_open", "write_body"})
          => hostnames # <<>>

\* an input file of blank lines only, read, and the run ended with code 1
C8_Witness ==
    /\ C8_EmptyInput
    /\ Len(inputFile.lines) >= 2
    /\ Exited /\ exitCode = 1
    /\ Logged("stderr", "No hostnames found to lookup")

----------------------------------------------------------------------------
(* C9 *)

\* hs holds the non-blank lines, each trimmed, in the order of the file:
\* the k-th non-blank line gives hs[k]
C9_NonBlankTrimmed(lines, hs) ==
    LET keep == {i \in DOMAIN lines : NonBlank(lines[i])}
    IN  /\ Len(hs) = Cardinality(keep)
        /\ \A i \in keep : TrimOf(hs[Cardinality({j \in keep : j <= i})], lines[i])

\* C9: read_hostnames returns, for a readable file, exactly its non-blank
\* lines, each whitespace-trimmed, in file order; and for a name that is no
\* file, the one-element list of the name itself, unchanged.
C9_ReadHostnames ==
    (pc = "read_return") =>
        /\ (inputFile.kind = "file") => C9_NonBlankTrimmed(inputFile.lines, hostnames)
        /\ (inputFile.kind = "missing") => hostnames = <<args.input>>
        /\ inputFile.kind \in {"file", "missing"}

\* a file with a blank line and a line with whitespace on both sides, read
C9_Witness ==
    /\ pc = "read_return"
    /\ inputFile.kind = "file"
    /\ Len(inputFile.lines) >= 2
    /\ \E i, j \in DOMAIN inputFile.lines :
          /\ ~NonBlank(inputFile.lines[i])
          /\ NonBlank(inputFile.lines[j])
          /\ inputFile.lines[j][1] = " "
    /\ Len(hostnames) >= 1

----------------------------------------------------------------------------
(* C10 *)

\* C10: the output file is opened at most once, only after the last lookup
\* has returned, no lookup is performed after it was opened, and it is closed
\* when the process has exited, on the path where writing fails too.
C10_OutputFile ==
    /\ outFile.opens <= 1
    /\ (outFile.opens > 0) => LookupsDone
    /\ \A i, j \in DOMAIN log :
          (log[i].ch = "output" /\ log[i].what = "open" /\ j > i) => log[j].ch \notin {"lookup", "resolver"}
    /\ \A i, j \in DOMAIN log :
          (log[i].ch = "output" /\ log[i].what = "open" /\ log[j].ch = "output" /\ log[j].what = "open") => i = j
    /\ Exited => outFile.state = "closed"
    /\ (Exited /\ outFile.opens > 0) => log[Len(log) - 1] = Ev("output", "close", <<>>)

\* the file was opened, the write failed, and the process exited with code 1
C10_Witness ==
    /\ Exited /\ exitCode = 1
    /\ outFile.opens = 1
    /\ WriteFailed
    /\ AllSucceeded
    /\ outFile.state = "closed"

====
